---- MODULE Spec2Model ----
(***************************************************************************)
(* Model of the two Open WebUI filter pipelines of this repository:        *)
(*   examples/filters/message_length_filter_pipeline.py  (length stage)    *)
(*   examples/filters/audit_log_filter_pipeline.py       (audit stage)     *)
(*                                                                         *)
(* Python values are encoded uniformly so that TLC can compare them:       *)
(*   - a string-valued dict entry is a TLA+ string; a missing key is the   *)
(*     sentinel Absent, the value None is the sentinel NoneV and a truthy  *)
(*     value that is no string (a number) is the sentinel NumV;            *)
(*   - a number-valued entry is a record [kind, n];                        *)
(*   - dicts are records that carry every key the model reads plus one     *)
(*     key the filters do not know, each possibly Absent.                  *)
(***************************************************************************)
EXTENDS Integers, Sequences, FiniteSets, TLC

VARIABLES
    body,       \* the request body the host passes from stage to stage
    body0,      \* the body as the host created it for this exchange
    entry,      \* the body as it was on entry to the last call
    user,       \* the identity the host passes with every call
    valves,     \* the stages' configuration (Pipeline.Valves of both stages)
    events,     \* the audit sink: the events printed so far, oldest first
    last,       \* what the last call did: the stage, how it ended, the reason
    calls,      \* the number of calls the host made for this exchange
    uuids,      \* the number of uuid4() identifiers generated so far
    ran,        \* the entry points that have returned for this exchange
    content,    \* normaliser harness: the content under normalisation
    text,       \* normaliser harness: the result of _extract_text
    length,     \* normaliser harness: the result of _compute_text_length
    npc         \* normaliser harness: "start" or "done"

vars == <<body, body0, entry, user, valves, events, last, calls, uuids, ran,
          content, text, length, npc>>

(***************************************************************************)
(* Bounds of the model.                                                    *)
(***************************************************************************)
\* the longest list of content parts the normaliser harness enumerates
MaxParts == 2
\* the longest list of messages a request body carries
MaxMsgs == 2
\* the number of calls the host makes for one exchange
MaxCalls == 3
\* the configured max_user_message_chars of the length stage, when positive
LimitChars == 3

(***************************************************************************)
(* Python values.                                                          *)
(***************************************************************************)
Absent == "<absent>"
NoneV == "<None>"
NumV == "<number>"

\* dict.get(key): a missing key reads as None
Get(v) == IF v = Absent THEN NoneV ELSE v

\* bool(v) of a string-valued entry
Truthy(v) == v \notin {Absent, NoneV, ""}

\* isinstance(v, str)
IsStr(v) == v \notin {Absent, NoneV, NumV}

\* str(v), as an f-string formats it
Str(v) == IF v = NoneV THEN "None" ELSE v

\* the string of n characters
RECURSIVE Rep(_)
Rep(n) == IF n <= 0 THEN "" ELSE "a" \o Rep(n - 1)

AbsentN == [kind |-> "absent", n |-> 0]
NoneN == [kind |-> "none", n |-> 0]
StrN == [kind |-> "str", n |-> 0]
IntN(n) == [kind |-> "int", n |-> n]

\* message content: a string, a list of parts, or anything else (None)
StrContent(s) == [kind |-> "str", str |-> s, parts |-> <<>>]
ListContent(ps) == [kind |-> "list", str |-> "", parts |-> ps]
NoneContent == [kind |-> "none", str |-> "", parts |-> <<>>]

\* a content part: a bare string, a dict with the keys text and content, or
\* anything else
StrPart(s) == [kind |-> "str", str |-> s, text |-> Absent, content |-> Absent]
DictPart(t, c) == [kind |-> "dict", str |-> "", text |-> t, content |-> c]
OtherPart == [kind |-> "other", str |-> "", text |-> Absent, content |-> Absent]

(***************************************************************************)
(* Content normalisation.                                                  *)
(***************************************************************************)
\* a slip that reads the text key alone
PartTextOnly(part) == Get(part.text)

\* part.get("text") or part.get("content")
PartText(part) ==
    IF Truthy(Get(part.text)) THEN Get(part.text) ELSE Get(part.content)

\* audit stage, _extract_text: the loop body for one part
ExtractPart(part) ==
    IF part.kind = "str" THEN part.str
    ELSE IF part.kind = "dict"
         THEN IF IsStr(PartText(part)) THEN PartText(part) ELSE ""
         ELSE ""

RECURSIVE JoinParts(_)
JoinParts(ps) ==
    IF ps = <<>> THEN "" ELSE ExtractPart(Head(ps)) \o JoinParts(Tail(ps))

\* audit stage, _extract_text
ExtractText(c) ==
    IF c.kind = "str" THEN c.str
    ELSE IF c.kind = "list" THEN JoinParts(c.parts)
    ELSE ""

\* length stage, _compute_text_length: the loop body for one part
PartLength(part) ==
    IF part.kind = "str" THEN Len(part.str)
    ELSE IF part.kind = "dict"
         THEN IF IsStr(PartText(part)) THEN Len(PartText(part)) ELSE 0
         ELSE 0

RECURSIVE SumParts(_)
SumParts(ps) ==
    IF ps = <<>> THEN 0 ELSE PartLength(Head(ps)) + SumParts(Tail(ps))

\* length stage, _compute_text_length
ComputeTextLength(c) ==
    IF c.kind = "str" THEN Len(c.str)
    ELSE IF c.kind = "list" THEN SumParts(c.parts)
    ELSE 0

(***************************************************************************)
(* Request bodies.                                                         *)
(***************************************************************************)
Message(role, c) == [role |-> role, content |-> c]

AbsentMessages == [kind |-> "absent", list |-> <<>>]
NoneMessages == [kind |-> "none", list |-> <<>>]
ListMessages(ms) == [kind |-> "list", list |-> ms]

\* body["metadata"]: chat_id, session_id and a key the stages do not know
AbsentMetadata ==
    [kind |-> "absent", chat_id |-> Absent, session_id |-> Absent, user_id |-> Absent]
NoneMetadata ==
    [kind |-> "none", chat_id |-> Absent, session_id |-> Absent, user_id |-> Absent]
Metadata(c, s, k) ==
    [kind |-> "dict", chat_id |-> c, session_id |-> s, user_id |-> k]

\* body["options"]: max_tokens and a key the stages do not know
AbsentOptions == [kind |-> "absent", max_tokens |-> AbsentN, temperature |-> Absent]
NoneOptions == [kind |-> "none", max_tokens |-> AbsentN, temperature |-> Absent]
Options(m, t) == [kind |-> "dict", max_tokens |-> m, temperature |-> t]

Body(c, s, msgs, md, opts) ==
    [chat_id |-> c, session_id |-> s, model |-> "llama", stream |-> "true",
     messages |-> msgs, metadata |-> md, options |-> opts]

\* the identity: None, or a dict with the keys email and id
NoneUser == [kind |-> "none", email |-> Absent, id |-> Absent]
User(e, i) == [kind |-> "dict", email |-> e, id |-> i]

(***************************************************************************)
(* Length stage: message_length_filter_pipeline.py                         *)
(***************************************************************************)
\* the loop of _get_last_message_by_roles: the index of the message
\* returned, 0 for None
RECURSIVE LastIndexByRoles(_, _, _)
LastIndexByRoles(ms, roles, i) ==
    IF i = 0 THEN 0
    ELSE IF ms[i].role \in roles THEN i
    ELSE LastIndexByRoles(ms, roles, i - 1)

\* _get_last_message_by_roles
GetLastMessageByRoles(ms, roles) == LastIndexByRoles(ms, roles, Len(ms))

Min(a, b) == IF a <= b THEN a ELSE b

\* a slip that overwrites the requested cap
ApplyOutputTokenCapOverwrite(b, v) ==
    IF v.max_assistant_response_tokens.kind = "none"
    THEN [raised |-> FALSE, body |-> b]
    ELSE [raised |-> FALSE,
          body |-> [b EXCEPT !.options =
                       Options(v.max_assistant_response_tokens,
                               IF b.options.kind = "dict"
                               THEN b.options.temperature ELSE Absent)]]

\* Pipeline._apply_output_token_cap: min() raises TypeError when the
\* pre-existing max_tokens is no number, before anything is written
ApplyOutputTokenCap(b, v) ==
    IF v.max_assistant_response_tokens.kind = "none"
    THEN [raised |-> FALSE, body |-> b]
    ELSE LET desired == v.max_assistant_response_tokens.n
             options == IF b.options.kind = "dict" THEN b.options
                        ELSE Options(AbsentN, Absent)
             pre == IF options.max_tokens.kind = "absent" THEN IntN(desired)
                    ELSE options.max_tokens
         IN IF pre.kind # "int"
            THEN [raised |-> TRUE, body |-> b]
            ELSE [raised |-> FALSE,
                  body |-> [b EXCEPT !.options =
                               [options EXCEPT !.max_tokens = IntN(Min(pre.n, desired))]]]

\* a slip that rejects a message of exactly the limit
ExceedsOrEquals(n, max) == n >= max

\* length > max_chars
Exceeds(n, max) == n > max

\* the input-length check of Pipeline.inlet: "ok", "rejected" with the
\* length and the limit of the message, or "raised" (reversed(None))
CheckInputLength(b, v) ==
    LET max_chars == v.max_user_message_chars
        ok == [result |-> "ok", actual |-> 0, max |-> 0]
    IN IF max_chars.kind = "int" /\ max_chars.n # 0 /\ max_chars.n > 0
       THEN IF b.messages.kind = "none"
            THEN [result |-> "raised", actual |-> 0, max |-> 0]
            ELSE LET ms == b.messages.list
                     i == GetLastMessageByRoles(ms, v.target_user_roles)
                 IN IF i = 0 THEN ok
                    ELSE LET n == ComputeTextLength(ms[i].content)
                         IN IF Exceeds(n, max_chars.n)
                            THEN [result |-> "rejected", actual |-> n,
                                  max |-> max_chars.n]
                            ELSE ok
       ELSE ok

\* a slip that writes the cap before the input-length check
LenInletCapFirst(b, v) ==
    LET cap == ApplyOutputTokenCap(b, v)
        chk == CheckInputLength(b, v)
    IN IF cap.raised
       THEN [result |-> "raised", body |-> b, actual |-> 0, max |-> 0]
       ELSE IF chk.result = "ok"
            THEN [result |-> "returned", body |-> cap.body, actual |-> 0, max |-> 0]
            ELSE [result |-> chk.result, body |-> cap.body,
                  actual |-> chk.actual, max |-> chk.max]

\* Pipeline.inlet of the length stage
LenInlet(b, v) ==
    LET chk == CheckInputLength(b, v)
        cap == ApplyOutputTokenCap(b, v)
    IN IF chk.result # "ok"
       THEN [result |-> chk.result, body |-> b,
             actual |-> chk.actual, max |-> chk.max]
       ELSE [result |-> IF cap.raised THEN "raised" ELSE "returned",
             body |-> cap.body, actual |-> 0, max |-> 0]

(***************************************************************************)
(* Audit stage: audit_log_filter_pipeline.py                               *)
(***************************************************************************)
\* str(uuid.uuid4()): the n-th identifier generated
Fresh(n) == "uuid-" \o ToString(n)

\* f"temporary-session-{session_id}"
TemporarySession(session_id) == "temporary-session-" \o Str(session_id)

\* body.get("metadata", {})
MetadataOrEmpty(b) ==
    IF b.metadata.kind = "absent" THEN Metadata(Absent, Absent, Absent)
    ELSE b.metadata

\* a slip that generates the chat id anew on every call
InletChatIdAlwaysFresh(md, fresh) ==
    IF md.chat_id = "local" THEN TemporarySession(Get(md.session_id)) ELSE fresh

\* inlet: metadata.get("chat_id", str(uuid.uuid4())) and the rewrite of the
\* temporary chat's id
InletChatId(md, fresh) ==
    LET chat_id == IF md.chat_id = Absent THEN fresh ELSE md.chat_id
    IN IF chat_id = "local" THEN TemporarySession(Get(md.session_id))
       ELSE chat_id

\* outlet: body.get("chat_id") and the rewrite of the temporary chat's id
OutletChatId(b) ==
    LET chat_id == Get(b.chat_id)
    IN IF chat_id = "local" THEN TemporarySession(Get(b.session_id))
       ELSE chat_id

\* a slip that stores the chat id in a new metadata dict
StoreChatIdFresh(b, md, chat_id) ==
    [b EXCEPT !.metadata = Metadata(chat_id, Absent, Absent)]

\* metadata["chat_id"] = chat_id; body["metadata"] = metadata
StoreChatId(b, md, chat_id) ==
    [b EXCEPT !.metadata = [md EXCEPT !.kind = "dict", !.chat_id = chat_id]]

\* _base_log: the trace id, or the fault that ends _base_log.  The name
\* user is bound to __user__["email"], so user.get("id") is evaluated on the
\* email: a non-empty email raises AttributeError, an empty one yields None.
TraceId(b, u, fresh) ==
    LET raise == [raised |-> TRUE, id |-> NoneV, fresh |-> FALSE]
        found(id) == [raised |-> FALSE, id |-> id, fresh |-> FALSE]
    IN IF u.kind = "none" \/ u.email = Absent THEN raise
       ELSE IF Truthy(Get(b.chat_id)) THEN found(b.chat_id)
       ELSE IF b.metadata.kind = "none" THEN raise
       ELSE IF Truthy(Get(MetadataOrEmpty(b).chat_id))
            THEN found(MetadataOrEmpty(b).chat_id)
       ELSE IF Truthy(Get(b.session_id)) THEN found(b.session_id)
       ELSE IF Truthy(u.email) THEN raise
       ELSE [raised |-> FALSE, id |-> fresh, fresh |-> TRUE]

\* utils.pipelines.main.get_last_user_message / get_last_assistant_message:
\* the text of the last message of the role, None when there is none
GetLastMessageOfRole(ms, role) ==
    LET i == LastIndexByRoles(ms, {role}, Len(ms))
    IN IF i = 0 THEN NoneV ELSE ExtractText(ms[i].content)

\* the part of inlet and outlet after the chat id is stored: _base_log, the
\* event type, additional-data and _print_log; a fault anywhere is caught
\* and the body as it then is (chat id stored) is returned
Record(b, u, v, n, event_type, role) ==
    LET t == TraceId(b, u, Fresh(n + 1))
        n1 == IF t.fresh THEN n + 1 ELSE n
        caught == [body |-> b, events |-> <<>>, caught |-> TRUE, uuids |-> n1]
    IN IF t.raised THEN caught
       ELSE IF v.include_content /\ b.messages.kind # "list" THEN caught
       ELSE [body |-> b,
             events |-> << [event_type |-> event_type,
                            trace_id |-> t.id,
                            subject_id |-> u.email,
                            resource_type |-> b.model,
                            additional_data |->
                                IF v.include_content
                                THEN GetLastMessageOfRole(b.messages.list, role)
                                ELSE ""] >>,
             caught |-> FALSE,
             uuids |-> n1]

\* Pipeline.inlet of the audit stage
AuditInlet(b, u, v, n) ==
    IF b.metadata.kind = "none"
    THEN [body |-> b, events |-> <<>>, caught |-> TRUE, uuids |-> n]
    ELSE LET md == MetadataOrEmpty(b)
             chat_id == InletChatId(md, Fresh(n + 1))
         IN Record(StoreChatId(b, md, chat_id), u, v, n + 1, "user_input", "user")

\* Pipeline.outlet of the audit stage
AuditOutlet(b, u, v, n) ==
    IF b.metadata.kind = "none"
    THEN [body |-> b, events |-> <<>>, caught |-> TRUE, uuids |-> n]
    ELSE LET md == MetadataOrEmpty(b)
             chat_id == OutletChatId(b)
         IN Record(StoreChatId(b, md, chat_id), u, v, n, "llm_response", "assistant")

(***************************************************************************)
(* The host: it creates the body of one exchange and calls the stages'     *)
(* entry points on it, inlets before outlets, each call on the body the    *)
(* call before returned.  Both stages have priority 0, so the host may     *)
(* run their inlets in either order.  An exception that reaches the host   *)
(* ends the exchange.                                                      *)
(***************************************************************************)
NoCall ==
    [op |-> "none", result |-> "none", caught |-> FALSE, emitted |-> FALSE,
     actual |-> 0, max |-> 0]

Valves(chars, tokens, roles, include) ==
    [max_user_message_chars |-> chars,
     max_assistant_response_tokens |-> tokens,
     target_user_roles |-> roles,
     include_content |-> include]

HarnessIdle ==
    /\ content = NoneContent
    /\ text = ""
    /\ length = 0
    /\ npc = "idle"

InitExchange(bodies, users, configs) ==
    /\ body \in bodies
    /\ body0 = body
    /\ entry = body
    /\ user \in users
    /\ valves \in configs
    /\ events = <<>>
    /\ last = NoCall
    /\ calls = 0
    /\ uuids = 0
    /\ ran = {}
    /\ HarnessIdle

CanCall ==
    /\ npc = "idle"
    /\ calls < MaxCalls
    /\ last.result \notin {"rejected", "raised"}

\* the host awaits the length stage's inlet
LenInletStep ==
    /\ CanCall
    /\ "audit_outlet" \notin ran
    /\ LET r == LenInlet(body, valves)
       IN /\ body' = r.body
          /\ last' = [op |-> "len_inlet", result |-> r.result, caught |-> FALSE,
                      emitted |-> FALSE, actual |-> r.actual, max |-> r.max]
          /\ ran' = IF r.result = "returned" THEN ran \cup {"len_inlet"} ELSE ran
    /\ entry' = body
    /\ calls' = calls + 1
    /\ UNCHANGED <<body0, user, valves, events, uuids, content, text, length, npc>>

\* the host awaits an entry point of the audit stage
AuditStep(op, r) ==
    /\ body' = r.body
    /\ events' = events \o r.events
    /\ uuids' = r.uuids
    /\ last' = [op |-> op, result |-> "returned", caught |-> r.caught,
                emitted |-> r.events # <<>>, actual |-> 0, max |-> 0]
    /\ ran' = ran \cup {op}
    /\ entry' = body
    /\ calls' = calls + 1
    /\ UNCHANGED <<body0, user, valves, content, text, length, npc>>

AuditInletStep ==
    /\ CanCall
    /\ "audit_outlet" \notin ran
    /\ AuditStep("audit_inlet", AuditInlet(body, user, valves, uuids))

AuditOutletStep ==
    /\ CanCall
    /\ AuditStep("audit_outlet", AuditOutlet(body, user, valves, uuids))

\* the normaliser harness applies both normalisers to one content
Normalize ==
    /\ npc = "start"
    /\ text' = ExtractText(content)
    /\ length' = ComputeTextLength(content)
    /\ npc' = "done"
    /\ UNCHANGED <<body, body0, entry, user, valves, events, last, calls, uuids,
                   ran, content>>

(***************************************************************************)
(* Inputs.                                                                 *)
(***************************************************************************)
\* the sequences over S of at most n elements
SeqsUpTo(S, n) == UNION {[1..k -> S] : k \in 0..n}

PlainBody(msgs, opts) == Body(Absent, Absent, msgs, AbsentMetadata, opts)

AnyUser == {User("e@example.org", "u1")}

\* normaliser harness: every list of at most MaxParts parts
NormParts ==
    {StrPart(""), StrPart("ab"), OtherPart}
    \cup {DictPart(t, c) : t \in {Absent, NoneV, NumV, "", "x"},
                           c \in {Absent, "", "yz"}}

NormContents ==
    {StrContent("hello"), StrContent(""), NoneContent}
    \cup {ListContent(ps) : ps \in SeqsUpTo(NormParts, MaxParts)}

\* length stage: contents whose text has 0, LimitChars or LimitChars + 1
\* characters, in one string or spread over parts
LenContents ==
    {StrContent(Rep(LimitChars)),
     StrContent(Rep(LimitChars + 1)),
     NoneContent,
     ListContent(<<StrPart(Rep(LimitChars - 1)), DictPart("a", Absent)>>),
     ListContent(<<DictPart("", Rep(LimitChars)), OtherPart, StrPart("a")>>)}

LenMessages ==
    {Message(r, c) : r \in {"user", "assistant"}, c \in LenContents}

LenBodies ==
    LET msgs == {AbsentMessages, NoneMessages}
                \cup {ListMessages(ms) : ms \in SeqsUpTo(LenMessages, MaxMsgs)}
        opts == {AbsentOptions, NoneOptions,
                 Options(AbsentN, "0.7"), Options(NoneN, Absent),
                 Options(StrN, Absent), Options(IntN(50), "0.7"),
                 Options(IntN(150), "0.7")}
    IN {PlainBody(m, o) : m \in msgs, o \in opts}

LenValves ==
    {Valves(c, t, {"user"}, TRUE) :
        c \in {NoneN, IntN(0), IntN(0 - 1), IntN(LimitChars)},
        t \in {NoneN, IntN(100)}}
    \cup {Valves(IntN(LimitChars), t, {"user", "assistant"}, TRUE) :
        t \in {NoneN, IntN(100)}}

\* audit stage: every combination of the identifiers the trace id is
\* derived from
Dialogue ==
    <<Message("user", StrContent("hi")), Message("assistant", StrContent("yo"))>>

AuditBodies ==
    LET mds == {AbsentMetadata, NoneMetadata}
               \cup {Metadata(c, s, "u1") : c \in {Absent, NoneV, "local", "c2"},
                                            s \in {Absent, "abc"}}
        msgs == {AbsentMessages, ListMessages(Dialogue),
                 ListMessages(SubSeq(Dialogue, 1, 1))}
    IN {Body(c, s, m, md, AbsentOptions) :
           c \in {Absent, "", "local", "c1"}, s \in {Absent, "abc"},
           m \in msgs, md \in mds}

AuditUsers ==
    {NoneUser, User(Absent, "u1"), User("", "u1"), User("", Absent),
     User("e@example.org", "u1")}

AuditValves == {Valves(NoneN, NoneN, {"user"}, i) : i \in BOOLEAN}

\* both stages on one exchange
BothBodies ==
    LET mds == {AbsentMetadata, Metadata("local", "abc", "u1"),
                Metadata("c1", "abc", "u1"), Metadata(Absent, Absent, "u1")}
        msgs == {ListMessages(<<Message("user", StrContent(Rep(LimitChars)))>>),
                 ListMessages(<<Message("user", StrContent(Rep(LimitChars + 1)))>>),
                 ListMessages(<<Message("user", StrContent(Rep(LimitChars + 1))),
                                Message("assistant", StrContent("yo")),
                                Message("user", StrContent("a"))>>)}
        opts == {AbsentOptions, Options(AbsentN, "0.7"),
                 Options(IntN(50), "0.7"), Options(IntN(150), "0.7")}
    IN {Body(c, "abc", m, md, o) :
           c \in {Absent, "local", "c1"}, m \in msgs, md \in mds, o \in opts}

BothUsers == {NoneUser, User("", "u1"), User("e@example.org", "u1")}

BothValves ==
    {Valves(c, t, {"user"}, TRUE) :
        c \in {NoneN, IntN(LimitChars)}, t \in {NoneN, IntN(100)}}
    \cup {Valves(IntN(LimitChars), IntN(100), {"user"}, FALSE)}

(***************************************************************************)
(* Specifications.                                                         *)
(***************************************************************************)
\* both stages on one exchange
Init == InitExchange(BothBodies, BothUsers, BothValves)

Next == LenInletStep \/ AuditInletStep \/ AuditOutletStep

Spec == Init /\ [][Next]_vars

\* the length stage alone
InitLen == InitExchange(LenBodies, AnyUser, LenValves)

NextLen == LenInletStep

SpecLen == InitLen /\ [][NextLen]_vars

\* the audit stage alone
InitAudit == InitExchange(AuditBodies, AuditUsers, AuditValves)

NextAudit == AuditInletStep \/ AuditOutletStep

SpecAudit == InitAudit /\ [][NextAudit]_vars

\* the normalisers alone
InitNorm ==
    /\ body = PlainBody(AbsentMessages, AbsentOptions)
    /\ body0 = body
    /\ entry = body
    /\ user = NoneUser
    /\ valves = Valves(NoneN, NoneN, {"user"}, TRUE)
    /\ events = <<>>
    /\ last = NoCall
    /\ calls = 0
    /\ uuids = 0
    /\ ran = {}
    /\ content \in NormContents
    /\ text = ""
    /\ length = 0
    /\ npc = "start"

NextNorm == Normalize

SpecNorm == InitNorm /\ [][NextNorm]_vars

(***************************************************************************)
(* Properties.                                                             *)
(***************************************************************************)
LastEvent == events[Len(events)]

\* the indices of the messages whose role is one of roles
TargetIndices(ms, roles) == {i \in 1..Len(ms) : ms[i].role \in roles}

\* the greatest element of a non-empty set of indices
Greatest(S) == CHOOSE i \in S : \A j \in S : j <= i

\* the normalised text of the message of entry that the input-length policy
\* is about: the one of the greatest index among those of a target role
PolicyText(b, v) ==
    ExtractText(b.messages.list[Greatest(
        TargetIndices(b.messages.list, v.target_user_roles))].content)

LimitSet(v) ==
    /\ v.max_user_message_chars.kind = "int"
    /\ v.max_user_message_chars.n > 0

HasTarget(b, v) ==
    /\ b.messages.kind = "list"
    /\ TargetIndices(b.messages.list, v.target_user_roles) # {}

\* C1: the length stage's inlet rejects exactly when the limit is set and
\* positive, a message of a target role exists and the normalised text of the
\* last such message is longer than the limit (a text of exactly the limit
\* passes); the reason carries that length and the limit.
C1_RejectIff ==
    last.op = "len_inlet" =>
        /\ last.result = "rejected" <=>
              /\ LimitSet(valves)
              /\ HasTarget(entry, valves)
              /\ Len(PolicyText(entry, valves)) > valves.max_user_message_chars.n
        /\ last.result = "rejected" =>
              /\ last.actual = Len(PolicyText(entry, valves))
              /\ last.max = valves.max_user_message_chars.n

\* a rejection of a text one character over the limit, although an older
\* message of the target role is within it
C1_Witness ==
    /\ last.op = "len_inlet"
    /\ last.result = "rejected"
    /\ last.actual = LimitChars + 1
    /\ last.max = LimitChars
    /\ Len(entry.messages.list) = 2
    /\ entry.messages.list[1].role = "user"
    /\ ComputeTextLength(entry.messages.list[1].content) = LimitChars

\* the cap requested before the call, when options is a dict that has one
HasRequestedCap(b) ==
    b.options.kind = "dict" /\ b.options.max_tokens.kind = "int"

\* C2: a length-stage inlet call that does not reject leaves the body as it
\* was when max_assistant_response_tokens is unset, and otherwise returns
\* with options.max_tokens the minimum of the requested cap, when there is
\* one, and the configured cap.
C2_MinRule ==
    (last.op = "len_inlet" /\ last.result # "rejected") =>
        IF valves.max_assistant_response_tokens.kind = "none"
        THEN body = entry
        ELSE last.result = "returned" =>
               /\ body.options.kind = "dict"
               /\ body.options.max_tokens.kind = "int"
               /\ body.options.max_tokens.n <= valves.max_assistant_response_tokens.n
               /\ IF HasRequestedCap(entry)
                  THEN /\ body.options.max_tokens.n <= entry.options.max_tokens.n
                       /\ body.options.max_tokens.n \in
                             {entry.options.max_tokens.n,
                              valves.max_assistant_response_tokens.n}
                  ELSE body.options.max_tokens.n =
                          valves.max_assistant_response_tokens.n

\* the configured cap of 100 met a requested cap of 50, which stands
C2_Witness ==
    /\ last.op = "len_inlet"
    /\ last.result = "returned"
    /\ valves.max_assistant_response_tokens = IntN(100)
    /\ entry.options.kind = "dict"
    /\ entry.options.max_tokens = IntN(50)
    /\ body.options.max_tokens = IntN(50)

\* C6: the input-length rejection is the only failure the length stage's
\* inlet raises: every call either rejects or returns the body.
C6_OnlyRejectionRaised ==
    last.op = "len_inlet" => last.result \in {"returned", "rejected"}

\* the recognised text-bearing keys of a structured part, in order, with
\* their values
Fields(part) == <<part.text, part.content>>

\* the value of the first field among those of the indices hits, "" when
\* that value is no string or hits is empty
FirstField(part, hits) ==
    IF hits = {} THEN ""
    ELSE LET v == Fields(part)[CHOOSE i \in hits : \A j \in hits : i <= j]
         IN IF IsStr(v) THEN v ELSE ""

PresentFields(part) == {i \in DOMAIN Fields(part) : Fields(part)[i] # Absent}

NonEmptyFields(part) ==
    {i \in DOMAIN Fields(part) : Fields(part)[i] \notin {Absent, NoneV, ""}}

FirstPresentText(part) ==
    IF part.kind = "str" THEN part.str
    ELSE IF part.kind = "dict" THEN FirstField(part, PresentFields(part))
    ELSE ""

FirstNonEmptyText(part) ==
    IF part.kind = "str" THEN part.str
    ELSE IF part.kind = "dict" THEN FirstField(part, NonEmptyFields(part))
    ELSE ""

\* the in-order concatenation of the parts' texts from index i on
RECURSIVE ConcatPresent(_, _)
ConcatPresent(ps, i) ==
    IF i > Len(ps) THEN ""
    ELSE FirstPresentText(ps[i]) \o ConcatPresent(ps, i + 1)

RECURSIVE ConcatNonEmpty(_, _)
ConcatNonEmpty(ps, i) ==
    IF i > Len(ps) THEN ""
    ELSE FirstNonEmptyText(ps[i]) \o ConcatNonEmpty(ps, i + 1)

\* C10 as stated: the text of a list content is the in-order concatenation
\* of its elements' texts, a structured element contributing the value of
\* its first PRESENT field among text, content; the length the policy uses
\* is the character count of that text.
C10_FirstPresent ==
    (npc = "done" /\ content.kind = "list") =>
        /\ text = ConcatPresent(content.parts, 1)
        /\ length = Len(text)

\* C10 as amended: a structured element contributes the value of its first
\* NON-EMPTY field among text, content when that value is a string, and the
\* empty string otherwise; the length the policy uses is the character count
\* of the text so normalised.
C10_FirstNonEmpty ==
    (npc = "done" /\ content.kind = "list") =>
        /\ text = ConcatNonEmpty(content.parts, 1)
        /\ length = Len(text)

\* a part whose text field is present and empty: its content field is read
C10_Witness ==
    /\ npc = "done"
    /\ content = ListContent(<<StrPart("ab"), DictPart("", "yz")>>)
    /\ text = "abyz"
    /\ length = 4

\* the exchange is a temporary chat of session "abc": wherever the body
\* carries a chat id it is "local", wherever it carries a session id it is
\* "abc", and both legs can read both
TemporaryChat(b) ==
    /\ b.chat_id = "local"
    /\ b.session_id = "abc"
    /\ b.metadata.kind = "dict"
    /\ b.metadata.chat_id = "local"
    /\ b.metadata.session_id = "abc"

\* C3: in an exchange whose chat id is "local" and whose session id is
\* "abc", every event the audit stage emits (user_input on inlet,
\* llm_response on outlet) has the trace id "temporary-session-abc", and
\* metadata.chat_id holds that id after inlet and after outlet.
C3_SameDerivedId ==
    (TemporaryChat(body0) /\ last.op \in {"audit_inlet", "audit_outlet"}
        /\ last.emitted) =>
        /\ LastEvent.trace_id = "temporary-session-abc"
        /\ body.metadata.chat_id = "temporary-session-abc"

FirstThreeEmpty(b) ==
    /\ ~Truthy(b.chat_id)
    /\ ~Truthy(b.metadata.chat_id)
    /\ ~Truthy(b.session_id)

\* C4: the trace id of an emitted event is the first non-empty of
\* body.chat_id, body.metadata.chat_id, body.session_id, user.id, and a
\* generated identifier only when all four are empty; when the first three
\* are empty and the user has an id, an event with that id is emitted.
C4_Precedence ==
    /\ last.emitted =>
          LastEvent.trace_id =
             IF Truthy(body.chat_id) THEN body.chat_id
             ELSE IF Truthy(body.metadata.chat_id) THEN body.metadata.chat_id
             ELSE IF Truthy(body.session_id) THEN body.session_id
             ELSE IF Truthy(user.id) THEN user.id
             ELSE Fresh(uuids)
    /\ (/\ last.op \in {"audit_inlet", "audit_outlet"}
        /\ body.metadata.kind = "dict"
        /\ FirstThreeEmpty(body)
        /\ user.kind = "dict" /\ user.email # Absent /\ Truthy(user.id)
        /\ body.messages.kind = "list") => last.emitted

\* C5: when an internal error occurs inside the audit stage's inlet or
\* outlet, the call raises nothing and returns the body with exactly the
\* keys and values it had on entry.
C5_FailOpenUnchanged ==
    (last.op \in {"audit_inlet", "audit_outlet"} /\ last.caught) =>
        /\ last.result = "returned"
        /\ body = entry

Inlets == {"audit_inlet", "len_inlet"}

\* C7: an inlet called again on the body its first call returned returns
\* that body as it is: whenever an inlet that has already returned for this
\* exchange returns again, the body is the one it was given; only the audit
\* emission repeats.
C7_InletIdempotent ==
    [][(/\ calls' = calls + 1
        /\ last'.op \in Inlets \cap ran
        /\ last'.result = "returned") => body' = body]_vars

\* the audit inlet has run twice and the length inlet once on a body whose
\* chat id was resolved, and the stages did change that body
C7_Witness ==
    /\ last.op = "audit_inlet"
    /\ Len(events) = 2
    /\ events[1].event_type = "user_input"
    /\ events[2].event_type = "user_input"
    /\ "len_inlet" \in ran
    /\ body0.metadata.chat_id = "c1"
    /\ body.options # body0.options
    /\ body = entry

\* C8 as stated: in an exchange whose input-length check rejects,
\* options.max_tokens is not written and no user_input event is emitted.
C8_NoAuditOnReject ==
    last.result = "rejected" =>
        /\ body.options = body0.options
        /\ \A i \in DOMAIN events : events[i].event_type # "user_input"

\* C8 as amended: the length stage checks the input length before it writes
\* the cap, so the rejecting call writes no options.max_tokens and emits
\* nothing, and options is as the host created it; a user_input event of a
\* rejected exchange was emitted by the audit stage's inlet before the
\* rejecting call.
C8_RejectWritesNothing ==
    [][(calls' = calls + 1 /\ last'.result = "rejected") =>
          /\ body' = body
          /\ body'.options = body0.options
          /\ events' = events
          /\ (events' # <<>> => "audit_inlet" \in ran)]_vars

\* a rejection in an exchange that has a cap configured and whose
\* user_input event the audit stage had already emitted
C8_Witness ==
    /\ last.result = "rejected"
    /\ valves.max_assistant_response_tokens.kind = "int"
    /\ Len(events) = 1
    /\ events[1].event_type = "user_input"
    /\ body.options = body0.options

\* C9: whatever calls were made, the keys the stages do not own are as the
\* host created them: every top-level key but metadata and options, every
\* key of metadata but chat_id, every key of options but max_tokens; the
\* messages and their contents are untouched.
C9_Frame ==
    /\ body.messages = body0.messages
    /\ body.chat_id = body0.chat_id
    /\ body.session_id = body0.session_id
    /\ body.model = body0.model
    /\ body.stream = body0.stream
    /\ body.metadata.session_id = body0.metadata.session_id
    /\ body.metadata.user_id = body0.metadata.user_id
    /\ body.options.temperature = body0.options.temperature

\* both stages have written their keys next to keys they do not know
C9_Witness ==
    /\ body0.metadata.kind = "dict"
    /\ body0.metadata.user_id = "u1"
    /\ body0.options.temperature = "0.7"
    /\ body.metadata.chat_id # body0.metadata.chat_id
    /\ body.options.max_tokens # body0.options.max_tokens
    /\ "audit_outlet" \in ran

====
